---- MODULE Spec2Model ----
(***************************************************************************)
(* cargo-neat (src/main.rs): one run of the tool as a state machine.       *)
(*                                                                         *)
(* Strings whose order or content matters (dependency names, package      *)
(* names, paths) are sequences of byte values, so that `sort`, `join` and  *)
(* `to_str` are computed as the code computes them.  Fixed messages and    *)
(* tree root labels are TLA+ strings.                                      *)
(***************************************************************************)
EXTENDS Integers, Sequences, FiniteSets, TLC

VARIABLES
    pc,          \* position of the run: start, loaded, scan, returned, exited
    args,        \* CliArgs: [mandatory : BOOLEAN]
    rootDir,     \* bytes of the workspace root directory
    nMembers,    \* workspace.members() is 1..nMembers
    deps,        \* member -> its declared dependency entries, in table order
    manifestKind,\* EitherManifest of the root manifest: none, Virtual, Real
    wsDeps,      \* workspace_dependencies
    unused,      \* unused_workspace_dependencies
    issues,      \* mandatory_workspace_dependencies_issues: pkg name -> names
    scanned,     \* the members the loop has gone through so far
    stdout,      \* lines printed with println!
    reports,     \* trees printed with eprintln!
    errors,      \* "Error: ..." lines printed by main
    result,      \* what run() returned
    exitCode     \* argument of std::process::exit, -1 while running

vars == <<pc, args, rootDir, nMembers, deps, manifestKind, wsDeps, unused,
          issues, scanned, stdout, reports, errors, result, exitCode>>

----------------------------------------------------------------------------
(* Bounds of the explored inputs *)

\* most members of a workspace
MaxPkgs == 2
\* most dependency entries in the member manifests of a workspace, all
\* members together
MaxDeps == 3

----------------------------------------------------------------------------
(* Input universe *)

\* dependency names "a" and "ab"
DepNames == { <<97>>, <<97, 98>> }

\* One dependency entry of a member manifest: the key written in the table
\* (LocalManifest::get_dependencies), the name of the package it resolves to
\* (Dependency::package_name) and its source: Workspace, Registry, Path or
\* Git, or Err for an entry for which get_dependencies yields Err(_).  The
\* entries of a member are those of all its dependency tables, in the order
\* get_dependencies yields them, so a key can occur more than once.
Entries ==
    { [key |-> <<97>>,     package |-> <<97>>,     source |-> "Workspace"],
      [key |-> <<97>>,     package |-> <<97>>,     source |-> "Registry"],
      [key |-> <<97, 98>>, package |-> <<97>>,     source |-> "Workspace"],
      [key |-> <<97, 98>>, package |-> <<97, 98>>, source |-> "Registry"],
      [key |-> <<97>>,     package |-> <<97>>,     source |-> "Path"] }

EntrySeqs == UNION { [1..n -> Entries] : n \in 0..MaxDeps }

\* The ways to hand the entries of `flat`, in order, to the members 1..n
Owners(flat, n) ==
    { o \in [1..Len(flat) -> 1..n] :
        \A i, j \in 1..Len(flat) : i < j => o[i] <= o[j] }

\* the entries of member p when `flat` is handed out as `owner` says
EntriesOf(flat, owner, p) ==
    LET idx == { i \in 1..Len(flat) : owner[i] = p }
        first == CHOOSE i \in idx : \A j \in idx : i <= j
    IN  [k \in 1..Cardinality(idx) |-> flat[first + k - 1]]

\* pkg.name(): "a", "a-b", "b", then "c", "d", ...
PkgName(p) ==
    CASE p = 1 -> <<97>>
      [] p = 2 -> <<97, 45, 98>>
      [] p = 3 -> <<98>>
      [] OTHER -> <<96 + p>>

\* directory of the member below the workspace root: "a", "x/a-b", "b", ...
PkgDir(p) ==
    CASE p = 2 -> <<120, 47>> \o PkgName(p)
      [] OTHER -> PkgName(p)

\* the root directory: "/w", or "/" followed by the byte 0xFF
RootDirs == { <<47, 119>>, <<47, 255>> }

----------------------------------------------------------------------------
(* Paths and strings *)

\* "Cargo.toml"
CargoToml == <<67, 97, 114, 103, 111, 46, 116, 111, 109, 108>>

\* Path::join for a relative component
Join(dir, comp) == dir \o <<47>> \o comp

\* Path::to_str: None unless the bytes are valid UTF-8 (here: all ASCII)
IsUtf8(path) == \A i \in 1..Len(path) : path[i] < 128

RootCargoToml == Join(rootDir, CargoToml)

\* pkg.manifest_path()
ManifestPath(p) == Join(Join(rootDir, PkgDir(p)), CargoToml)

\* the path computed for a group of the violations report
IssuePath(name) == Join(Join(rootDir, name), CargoToml)

Min(a, b) == IF a < b THEN a ELSE b

\* Ord for str / InternedString: byte-wise lexicographic
StrLt(s, t) ==
    \E i \in 1..(Min(Len(s), Len(t)) + 1) :
        /\ \A j \in 1..(i - 1) : s[j] = t[j]
        /\ IF i <= Min(Len(s), Len(t)) THEN s[i] < t[i] ELSE Len(s) < Len(t)

\* Ord for Vec<String>
VecLt(u, v) ==
    \E i \in 1..(Min(Len(u), Len(v)) + 1) :
        /\ \A j \in 1..(i - 1) : u[j] = v[j]
        /\ IF i <= Min(Len(u), Len(v)) THEN StrLt(u[i], v[i]) ELSE Len(u) < Len(v)

\* Ord for (InternedString, Vec<String>)
IssueLt(x, y) == StrLt(x[1], y[1]) \/ (x[1] = y[1] /\ VecLt(x[2], y[2]))

RECURSIVE InsertString(_, _)
InsertString(sorted, x) ==
    IF sorted = <<>> THEN <<x>>
    ELSE IF StrLt(x, Head(sorted)) THEN <<x>> \o sorted
    ELSE <<Head(sorted)>> \o InsertString(Tail(sorted), x)

\* Vec<String>::sort
RECURSIVE SortStrings(_)
SortStrings(v) ==
    IF v = <<>> THEN <<>>
    ELSE InsertString(SortStrings(SubSeq(v, 1, Len(v) - 1)), v[Len(v)])

RECURSIVE InsertIssue(_, _)
InsertIssue(sorted, x) ==
    IF sorted = <<>> THEN <<x>>
    ELSE IF IssueLt(x, Head(sorted)) THEN <<x>> \o sorted
    ELSE <<Head(sorted)>> \o InsertIssue(Tail(sorted), x)

\* Vec<(InternedString, Vec<String>)>::sort
RECURSIVE SortIssues(_)
SortIssues(v) ==
    IF v = <<>> THEN <<>>
    ELSE InsertIssue(SortIssues(SubSeq(v, 1, Len(v) - 1)), v[Len(v)])

\* the orders in which a hash collection may hand out its elements
IterOrders(S) ==
    { f \in [1..Cardinality(S) -> S] :
        \A i, j \in 1..Cardinality(S) : i # j => f[i] # f[j] }

----------------------------------------------------------------------------
(* The scan of one member *)

\* deps_other: the (name, source) pairs of the entries that could be read
RECURSIVE DepsOther(_)
DepsOther(entries) ==
    IF entries = <<>> THEN <<>>
    ELSE IF Head(entries).source = "Err" THEN DepsOther(Tail(entries))
    ELSE <<[dep |-> Head(entries).key, source |-> Head(entries).source]>>
            \o DepsOther(Tail(entries))

\* PushIssue with the map created inside the loop over the members: the
\* groups of the members scanned before are lost
PushIssueFreshMap(map, name, dep) ==
    IF name \in DOMAIN map
    THEN [map EXCEPT ![name] = Append(@, dep)]
    ELSE [k \in {name} |-> <<dep>>]

\* entry(name).or_insert(vec![]) followed by push(dep)
PushIssue(map, name, dep) ==
    IF name \in DOMAIN map
    THEN [map EXCEPT ![name] = Append(@, dep)]
    ELSE [k \in DOMAIN map \cup {name} |-> IF k = name THEN <<dep>> ELSE map[k]]

\* PushIssues with the entry created before the test on the source: a
\* member whose dependencies could be read gets a group even when none of
\* them is Registry-sourced
RECURSIVE PushIssuesEntryFirst(_, _, _)
PushIssuesEntryFirst(map, name, others) ==
    IF others = <<>> THEN map
    ELSE LET m == IF name \in DOMAIN map THEN map
                  ELSE [k \in DOMAIN map \cup {name} |->
                          IF k = name THEN <<>> ELSE map[k]]
         IN  PushIssuesEntryFirst(
                IF Head(others).source = "Registry"
                THEN [m EXCEPT ![name] = Append(@, Head(others).dep)]
                ELSE m,
                name, Tail(others))

\* the loop over deps_other
RECURSIVE PushIssues(_, _, _)
PushIssues(map, name, others) ==
    IF others = <<>> THEN map
    ELSE PushIssues(
            IF Head(others).source = "Registry"
            THEN PushIssue(map, name, Head(others).dep)
            ELSE map,
            name, Tail(others))

\* RemoveDeps recomputing the difference from the workspace table for each
\* member instead of draining the running set
RemoveDepsFromWorkspaceTable(set, entries) ==
    wsDeps \ { entries[i].package : i \in 1..Len(entries) }

\* the loop over pkg.dependencies(): remove each dep.package_name()
RECURSIVE RemoveDeps(_, _)
RemoveDeps(set, entries) ==
    IF entries = <<>> THEN set
    ELSE RemoveDeps(set \ {Head(entries).package}, Tail(entries))

----------------------------------------------------------------------------
(* The reports *)

\* fn tree
RECURSIVE TreeChildren(_)
TreeChildren(groups) ==
    IF groups = <<>> THEN <<>>
    ELSE <<[label |-> Head(groups)[1], leaves |-> Head(groups)[2]]>>
            \o TreeChildren(Tail(groups))

Tree(root, groups) == [root |-> root, children |-> TreeChildren(groups)]

\* the flat_map over the issues in hash order: a group whose path has no
\* text form yields Err, which flat_map drops
RECURSIVE IssueGroups(_, _)
IssueGroups(map, order) ==
    IF order = <<>> THEN <<>>
    ELSE (IF IsUtf8(IssuePath(Head(order)))
          THEN << <<IssuePath(Head(order)), map[Head(order)]>> >>
          ELSE <<>>)
         \o IssueGroups(map, Tail(order))

UnusedLabel == "Unused workspace dependencies :"
IssuesLabel == "Non workspace dependencies :"

Ok(b) == [kind |-> "Ok", value |-> b, msg |-> ""]
Err(m) == [kind |-> "Err", value |-> FALSE, msg |-> m]
NoResult == [kind |-> "None", value |-> FALSE, msg |-> ""]

\* NothingFound with || for &&
NothingFoundEither(set, map) == set = {} \/ DOMAIN map = {}

\* the test that selects the "nothing found" branch
NothingFound(set, map) == set = {} /\ DOMAIN map = {}

\* main's match on the result of run()
ExitCodeOf(r) ==
    IF r.kind = "Ok" THEN (IF r.value THEN 1 ELSE 0) ELSE 2

\* IsVirtual with the Real arm treated like the Virtual one
IsVirtualOrReal(kind) == kind \in {"Virtual", "Real"}

\* the match on the root manifest
IsVirtual(kind) == kind = "Virtual"

EmptyMap == [k \in {} |-> <<>>]

----------------------------------------------------------------------------
(* The run *)

Init ==
    /\ pc = "start"
    /\ args \in [mandatory : BOOLEAN]
    /\ rootDir \in RootDirs
    /\ nMembers = 0
    /\ deps = <<>>
    /\ manifestKind = "none"
    /\ wsDeps = {}
    /\ unused = {}
    /\ issues = EmptyMap
    /\ scanned = {}
    /\ stdout = <<>>
    /\ reports = <<>>
    /\ errors = <<>>
    /\ result = NoResult
    /\ exitCode = -1

\* canonicalize, GlobalContext::default, Workspace::new (twice), members()
LoadWorkspace ==
    /\ pc = "start"
    /\ \/ /\ pc' = "returned"
          /\ result' = Err("load")
          /\ UNCHANGED <<nMembers, deps>>
       \/ \E n \in 0..MaxPkgs :
          \E flat \in EntrySeqs :
          \E owner \in Owners(flat, n) :
            /\ nMembers' = n
            /\ deps' = [p \in 1..n |-> EntriesOf(flat, owner, p)]
            /\ pc' = "loaded"
            /\ UNCHANGED result
    /\ UNCHANGED <<args, rootDir, manifestKind, wsDeps, unused, issues, scanned,
                   stdout, reports, errors, exitCode>>

\* The keys the members inherit from the workspace table.  Workspace::new
\* has resolved every `workspace = true` entry against that table, so the
\* table of a workspace that loaded has all of them.
InheritedKeys ==
    UNION { { deps[p][i].key : i \in { j \in 1..Len(deps[p]) :
                                         deps[p][j].source = "Workspace" } } :
            p \in 1..nMembers }

\* read_manifest and the match on it, up to the start of the loop
ReadManifest ==
    /\ pc = "loaded"
    /\ \/ /\ pc' = "returned"
          /\ result' = Err("read_manifest")
          /\ UNCHANGED <<manifestKind, wsDeps, unused>>
       \/ \E kind \in {"Virtual", "Real"} :
            /\ manifestKind' = kind
            /\ IF IsVirtual(kind)
               THEN \E w \in SUBSET DepNames :
                      /\ InheritedKeys \subseteq w
                      /\ wsDeps' = w
                      /\ unused' = w
                      /\ pc' = "scan"
                      /\ UNCHANGED result
               ELSE /\ pc' = "returned"
                    /\ result' = Err("Failed to read virtual manifest")
                    /\ UNCHANGED <<wsDeps, unused>>
    /\ UNCHANGED <<args, rootDir, nMembers, deps, issues, scanned, stdout,
                   reports, errors, exitCode>>

\* one iteration of `for pkg in workspace_members`; the traversal order is
\* whatever members() yields, so any member not yet scanned may be next
ScanMember(p) ==
    /\ pc = "scan"
    /\ p \in (1..nMembers) \ scanned
    /\ \/ /\ pc' = "returned"
          /\ result' = Err("LocalManifest::try_new")
          /\ UNCHANGED <<unused, issues, scanned>>
       \/ /\ issues' = IF args.mandatory
                       THEN PushIssues(issues, PkgName(p), DepsOther(deps[p]))
                       ELSE issues
          /\ unused' = RemoveDeps(unused, deps[p])
          /\ scanned' = scanned \cup {p}
          /\ UNCHANGED <<pc, result>>
    /\ UNCHANGED <<args, rootDir, nMembers, deps, manifestKind, wsDeps, stdout,
                   reports, errors, exitCode>>

\* the unused report: the set in hash order, sorted, under the root manifest
UnusedReport(order) ==
    Tree(UnusedLabel, << <<RootCargoToml, SortStrings(order)>> >>)

\* the violations report: the groups in hash order, sorted
IssuesReport(map, order) ==
    Tree(IssuesLabel, SortIssues(IssueGroups(map, order)))

\* after the loop: the summary, the reports and the value returned
Finish ==
    /\ pc = "scan"
    /\ scanned = 1..nMembers
    /\ pc' = "returned"
    /\ IF NothingFound(unused, issues)
       THEN /\ stdout' = <<"No unused workspace dependencies">>
                         \o (IF args.mandatory
                             THEN <<"No non workspace dependencies">>
                             ELSE <<>>)
            /\ result' = Ok(FALSE)
            /\ UNCHANGED reports
       ELSE IF unused # {} /\ ~IsUtf8(RootCargoToml)
       THEN /\ result' = Err("cannot get root workspace")
            /\ UNCHANGED <<stdout, reports>>
       ELSE \E uo \in IterOrders(unused) :
            \E io \in IterOrders(DOMAIN issues) :
              /\ reports' =
                   (IF unused # {} THEN <<UnusedReport(uo)>> ELSE <<>>)
                   \o (IF DOMAIN issues # {}
                       THEN <<IssuesReport(issues, io)>>
                       ELSE <<>>)
              /\ result' = Ok(TRUE)
              /\ UNCHANGED stdout
    /\ UNCHANGED <<args, rootDir, nMembers, deps, manifestKind, wsDeps, unused,
                   issues, scanned, errors, exitCode>>

\* fn main
Main ==
    /\ pc = "returned"
    /\ pc' = "exited"
    /\ exitCode' = ExitCodeOf(result)
    /\ errors' = IF result.kind = "Err" THEN <<result.msg>> ELSE <<>>
    /\ UNCHANGED <<args, rootDir, nMembers, deps, manifestKind, wsDeps, unused,
                   issues, scanned, stdout, reports, result>>

Next ==
    \/ LoadWorkspace
    \/ ReadManifest
    \/ \E p \in 1..MaxPkgs : ScanMember(p)
    \/ Finish
    \/ Main

Spec == Init /\ [][Next]_vars

----------------------------------------------------------------------------
(* Properties *)

\* the loop has gone through every member of a virtual workspace
TraversalDone == manifestKind = "Virtual" /\ scanned = 1..nMembers

\* run() returned Ok(_)
Completed == pc \in {"returned", "exited"} /\ result.kind = "Ok"

\* the names written in the dependency tables of the members
\* the names written in the dependency tables of the members
DeclaredNames ==
    UNION { { deps[p][i].key : i \in 1..Len(deps[p]) } : p \in 1..nMembers }

\* the names of the Registry-sourced entries, one per entry, in table order
RegistryKeys(entries) ==
    LET reg == SelectSeq(entries, LAMBDA e : e.source = "Registry")
    IN  [i \in 1..Len(reg) |-> reg[i].key]

AllWorkspace(entries) ==
    \A i \in 1..Len(entries) : entries[i].source = "Workspace"

\* the trees of `reports` with a given root label
TreesOf(label) == { i \in 1..Len(reports) : reports[i].root = label }

Ascending(labels) ==
    \A i, j \in 1..Len(labels) : i < j => StrLt(labels[i], labels[j])

Occurrences(seq, x) == Cardinality({ i \in 1..Len(seq) : seq[i] = x })

C2_UnusedIsDeclaredDifference ==
    (TraversalDone /\ Completed) =>
        unused = wsDeps \ DeclaredNames

RECURSIVE UnusedAfter(_, _)
UnusedAfter(set, order) ==
    IF order = <<>> THEN set
    ELSE UnusedAfter(RemoveDeps(set, deps[Head(order)]), Tail(order))

\* what the loop leaves in the violation mapping for the order `order`
RECURSIVE IssuesAfter(_, _)
IssuesAfter(map, order) ==
    IF order = <<>> THEN map
    ELSE IssuesAfter(
            IF args.mandatory
            THEN PushIssues(map, PkgName(Head(order)), DepsOther(deps[Head(order)]))
            ELSE map,
            Tail(order))

\* C4: the unused set and the violation mapping at the end of the traversal
\* are those of every order in which the members can be traversed.
C4_OrderIndependent ==
    TraversalDone =>
        \A order \in IterOrders(1..nMembers) :
            /\ unused = UnusedAfter(wsDeps, order)
            /\ issues = IssuesAfter(EmptyMap, order)

\* two members, each with a violation and each using a workspace dependency
C4_Witness ==
    /\ TraversalDone
    /\ Completed
    /\ nMembers >= 2
    /\ unused # wsDeps
    /\ \A p \in 1..2 : PkgName(p) \in DOMAIN issues

\* C5: with a real package as root manifest the run ends in an error and
\* exit code 2; no member is scanned and nothing is reported.
C5_RealRootIsError ==
    manifestKind = "Real" =>
        /\ pc \in {"returned", "exited"}
        /\ result.kind = "Err"
        /\ scanned = {}
        /\ reports = <<>>
        /\ stdout = <<>>
        /\ pc = "exited" => exitCode = 2

\* a real root manifest in a workspace that has members with dependencies
C5_Witness ==
    /\ manifestKind = "Real"
    /\ pc = "exited"
    /\ errors # <<>>
    /\ nMembers >= 1
    /\ \E p \in 1..nMembers : deps[p] # <<>>

\* a report path that has no text form
UnrenderablePath ==
    \/ unused # {} /\ ~IsUtf8(RootCargoToml)
    \/ \E name \in DOMAIN issues : ~IsUtf8(IssuePath(name))

\* C6: when a manifest cannot be read or a report path cannot be rendered
\* as text, the run ends with exit code 2 and no report has been emitted.
C6_ErrorsAreFatal ==
    (pc = "exited" /\ (~TraversalDone \/ UnrenderablePath)) =>
        /\ exitCode = 2
        /\ reports = <<>>

\* C7: a workspace dependency that a member inherits under a key differing
\* from the target package's name counts as used.
C7_AliasCountsAsUsed ==
    (TraversalDone /\ Completed) =>
        \A p \in 1..nMembers : \A i \in 1..Len(deps[p]) :
            (/\ deps[p][i].source = "Workspace"
             /\ deps[p][i].key # deps[p][i].package
             /\ deps[p][i].key \in wsDeps)
            => deps[p][i].key \notin unused

\* C8: every unused name is a leaf of the unused report exactly once; every
\* member of the violation mapping has exactly one child in the violations
\* report, under which each of its violating names appears exactly once.
C8_NoLossNoRepeat ==
    (pc = "exited" /\ result.kind = "Ok") =>
        /\ unused # {} =>
              /\ Cardinality(TreesOf(UnusedLabel)) = 1
              /\ \A t \in TreesOf(UnusedLabel) :
                    /\ Len(reports[t].children) = 1
                    /\ \A name \in unused :
                          Occurrences(reports[t].children[1].leaves, name) = 1
        /\ DOMAIN issues # {} =>
              /\ Cardinality(TreesOf(IssuesLabel)) = 1
              /\ \A t \in TreesOf(IssuesLabel) : \A name \in DOMAIN issues :
                    /\ Cardinality({ c \in 1..Len(reports[t].children) :
                          reports[t].children[c].label = IssuePath(name) }) = 1
                    /\ \A c \in 1..Len(reports[t].children) :
                          reports[t].children[c].label = IssuePath(name) =>
                              \A i \in 1..Len(issues[name]) :
                                  Occurrences(reports[t].children[c].leaves,
                                              issues[name][i]) = 1

\* the labels of the children of a tree
ChildLabels(tree) == [c \in 1..Len(tree.children) |-> tree.children[c].label]

\* C9: each child of the violations report is the manifest path of a member
\* with violations, the children ascend by that path, and the leaves of the
\* unused report ascend by name.
C9_ReportOrder ==
    (pc = "exited" /\ result.kind = "Ok") =>
        /\ \A t \in TreesOf(IssuesLabel) :
              /\ \A c \in 1..Len(reports[t].children) :
                    \E p \in 1..nMembers :
                        /\ PkgName(p) \in DOMAIN issues
                        /\ reports[t].children[c].label = ManifestPath(p)
              /\ Ascending(ChildLabels(reports[t]))
        /\ \A t \in TreesOf(UnusedLabel) :
              \A c \in 1..Len(reports[t].children) :
                  Ascending(reports[t].children[c].leaves)

\* C10: during the traversal the unused set starts as the workspace set and
\* every step leaves it a subset of what it was and of the workspace set,
\* which itself does not change.
C10_UnusedOnlyShrinks ==
    [][/\ (pc = "loaded" /\ pc' = "scan") => unused' = wsDeps'
       /\ pc = "scan" =>
            /\ unused' \subseteq unused
            /\ unused' \subseteq wsDeps
            /\ wsDeps' = wsDeps]_vars

\* in mid-traversal, with one name removed and another still there
C10_Witness ==
    /\ pc = "scan"
    /\ scanned # {}
    /\ scanned # 1..nMembers
    /\ unused # {}
    /\ unused # wsDeps

====
